---- MODULE Spec2Model ----
(***************************************************************************)
(* A model of the lolli linear-logic workbench: the formula algebra        *)
(* (lolli-core/src/formula.rs), sequents and proof trees                   *)
(* (sequent.rs, proof.rs) and the focused proof search                     *)
(* (lolli-prove/src/search.rs).                                            *)
(*                                                                         *)
(* Values.  A formula is a tuple whose first component is the constructor  *)
(* name.  Option<T> is a sequence: <<>> is None and <<v>> is Some(v).      *)
(* A String is the sequence of its characters; every symbol that           *)
(* Formula::pretty prints is one element.                                  *)
(***************************************************************************)
EXTENDS Naturals, Sequences, FiniteSets

\* ------------------------------------------------------------------------
\* lolli-core/src/formula.rs
\* ------------------------------------------------------------------------

Atom(a) == <<"Atom", a>>
NegAtom(a) == <<"NegAtom", a>>
Tensor(a, b) == <<"Tensor", a, b>>
Par(a, b) == <<"Par", a, b>>
One == <<"One">>
Bottom == <<"Bottom">>
With(a, b) == <<"With", a, b>>
Plus(a, b) == <<"Plus", a, b>>
Top == <<"Top">>
Zero == <<"Zero">>
OfCourse(a) == <<"OfCourse", a>>
WhyNot(a) == <<"WhyNot", a>>
Lolli(a, b) == <<"Lolli", a, b>>

\* The constructor of a formula (the arm a `match` takes).
Tag(f) == f[1]

None == <<>>
Some(v) == <<v>>

RECURSIVE negate(_)
negate(f) ==
    CASE Tag(f) = "Atom" -> NegAtom(f[2])
      [] Tag(f) = "NegAtom" -> Atom(f[2])
      [] Tag(f) = "Tensor" -> Par(negate(f[2]), negate(f[3]))
      [] Tag(f) = "Par" -> Tensor(negate(f[2]), negate(f[3]))
      [] Tag(f) = "One" -> Bottom
      [] Tag(f) = "Bottom" -> One
      [] Tag(f) = "With" -> Plus(negate(f[2]), negate(f[3]))
      [] Tag(f) = "Plus" -> With(negate(f[2]), negate(f[3]))
      [] Tag(f) = "Top" -> Zero
      [] Tag(f) = "Zero" -> Top
      [] Tag(f) = "OfCourse" -> WhyNot(negate(f[2]))
      [] Tag(f) = "WhyNot" -> OfCourse(negate(f[2]))
      [] Tag(f) = "Lolli" -> Tensor(f[2], negate(f[3]))

RECURSIVE desugar(_)

\* desugar's Lolli arm without the recursion into the consequent.
desugar_lolli_shallow(a, b) == Par(desugar(negate(a)), b)

\* desugar, Lolli arm: A -o B = A^ par B
desugar_lolli(a, b) == Par(desugar(negate(a)), desugar(b))

desugar(f) ==
    CASE Tag(f) = "Lolli" -> desugar_lolli(f[2], f[3])
      [] Tag(f) = "Tensor" -> Tensor(desugar(f[2]), desugar(f[3]))
      [] Tag(f) = "Par" -> Par(desugar(f[2]), desugar(f[3]))
      [] Tag(f) = "With" -> With(desugar(f[2]), desugar(f[3]))
      [] Tag(f) = "Plus" -> Plus(desugar(f[2]), desugar(f[3]))
      [] Tag(f) = "OfCourse" -> OfCourse(desugar(f[2]))
      [] Tag(f) = "WhyNot" -> WhyNot(desugar(f[2]))
      [] OTHER -> f

\* is_positive with Lolli counted as positive.
is_positive_lolli(f) ==
    Tag(f) \in {"Atom", "Tensor", "One", "Plus", "Zero", "OfCourse", "Lolli"}

is_positive(f) == Tag(f) \in {"Atom", "Tensor", "One", "Plus", "Zero", "OfCourse"}

is_negative(f) == ~is_positive(f)

\* The characters "⊥", "⊗", "⅋", "⊸", "⊕", "⊤" are written bot, tensor, par,
\* lolli, plus, top; " " is the blank format! puts around a binary symbol.
RECURSIVE pretty(_)
pretty(f) ==
    CASE Tag(f) = "Atom" -> <<f[2]>>
      [] Tag(f) = "NegAtom" -> <<f[2], "bot">>
      [] Tag(f) = "Tensor" -> <<"(">> \o pretty(f[2]) \o <<" ", "tensor", " ">> \o pretty(f[3]) \o <<")">>
      [] Tag(f) = "Par" -> <<"(">> \o pretty(f[2]) \o <<" ", "par", " ">> \o pretty(f[3]) \o <<")">>
      [] Tag(f) = "Lolli" -> <<"(">> \o pretty(f[2]) \o <<" ", "lolli", " ">> \o pretty(f[3]) \o <<")">>
      [] Tag(f) = "With" -> <<"(">> \o pretty(f[2]) \o <<" ", "&", " ">> \o pretty(f[3]) \o <<")">>
      [] Tag(f) = "Plus" -> <<"(">> \o pretty(f[2]) \o <<" ", "plus", " ">> \o pretty(f[3]) \o <<")">>
      [] Tag(f) = "OfCourse" -> <<"!">> \o pretty(f[2])
      [] Tag(f) = "WhyNot" -> <<"?">> \o pretty(f[2])
      [] Tag(f) = "One" -> <<"1">>
      [] Tag(f) = "Bottom" -> <<"bot">>
      [] Tag(f) = "Top" -> <<"top">>
      [] Tag(f) = "Zero" -> <<"0">>

\* ------------------------------------------------------------------------
\* lolli-core/src/term.rs
\* ------------------------------------------------------------------------

\* A term is a tuple whose first component is the constructor name; binders
\* are strings.
Var(v) == <<"Var", v>>
Unit == <<"Unit">>
Pair(a, b) == <<"Pair", a, b>>
LetPair(x, y, pair, body) == <<"LetPair", x, y, pair, body>>
Abs(x, body) == <<"Abs", x, body>>
App(f, a) == <<"App", f, a>>
Inl(e) == <<"Inl", e>>
Inr(e) == <<"Inr", e>>
Case(scrut, x, left, y, right) == <<"Case", scrut, x, left, y, right>>
Trivial == <<"Trivial">>
Fst(e) == <<"Fst", e>>
Snd(e) == <<"Snd", e>>
Abort(e) == <<"Abort", e>>
Promote(e) == <<"Promote", e>>
Derelict(e) == <<"Derelict", e>>
Discard(discarded, body) == <<"Discard", discarded, body>>
Copy(src, x, y, body) == <<"Copy", src, x, y, body>>

RECURSIVE free_vars(_)
free_vars(t) ==
    CASE Tag(t) = "Var" -> {t[2]}
      [] Tag(t) \in {"Unit", "Trivial"} -> {}
      [] Tag(t) \in {"Pair", "App"} -> free_vars(t[2]) \cup free_vars(t[3])
      [] Tag(t) = "LetPair" -> free_vars(t[4]) \cup (free_vars(t[5]) \ {t[2], t[3]})
      [] Tag(t) = "Abs" -> free_vars(t[3]) \ {t[2]}
      [] Tag(t) \in {"Inl", "Inr", "Fst", "Snd", "Abort"} -> free_vars(t[2])
      [] Tag(t) = "Case" ->
           free_vars(t[2]) \cup (free_vars(t[4]) \ {t[3]}) \cup (free_vars(t[6]) \ {t[5]})
      [] Tag(t) \in {"Promote", "Derelict"} -> free_vars(t[2])
      [] Tag(t) = "Discard" -> free_vars(t[2]) \cup free_vars(t[3])
      [] Tag(t) = "Copy" -> free_vars(t[2]) \cup (free_vars(t[5]) \ {t[3], t[4]})

RECURSIVE substitute(_, _, _)
substitute(t, var, replacement) ==
    CASE Tag(t) = "Var" -> IF t[2] = var THEN replacement ELSE Var(t[2])
      [] Tag(t) = "Unit" -> Unit
      [] Tag(t) = "Trivial" -> Trivial
      [] Tag(t) = "Pair" ->
           Pair(substitute(t[2], var, replacement), substitute(t[3], var, replacement))
      [] Tag(t) = "LetPair" ->
           LetPair(t[2], t[3], substitute(t[4], var, replacement),
                   IF t[2] = var \/ t[3] = var THEN t[5]
                   ELSE substitute(t[5], var, replacement))
      [] Tag(t) = "Abs" ->
           IF t[2] = var THEN Abs(t[2], t[3])
           ELSE Abs(t[2], substitute(t[3], var, replacement))
      [] Tag(t) = "App" ->
           App(substitute(t[2], var, replacement), substitute(t[3], var, replacement))
      [] Tag(t) = "Inl" -> Inl(substitute(t[2], var, replacement))
      [] Tag(t) = "Inr" -> Inr(substitute(t[2], var, replacement))
      [] Tag(t) = "Case" ->
           Case(substitute(t[2], var, replacement),
                t[3],
                IF t[3] = var THEN t[4] ELSE substitute(t[4], var, replacement),
                t[5],
                IF t[5] = var THEN t[6] ELSE substitute(t[6], var, replacement))
      [] Tag(t) = "Fst" -> Fst(substitute(t[2], var, replacement))
      [] Tag(t) = "Snd" -> Snd(substitute(t[2], var, replacement))
      [] Tag(t) = "Abort" -> Abort(substitute(t[2], var, replacement))
      [] Tag(t) = "Promote" -> Promote(substitute(t[2], var, replacement))
      [] Tag(t) = "Derelict" -> Derelict(substitute(t[2], var, replacement))
      [] Tag(t) = "Discard" ->
           Discard(substitute(t[2], var, replacement), substitute(t[3], var, replacement))
      [] Tag(t) = "Copy" ->
           Copy(substitute(t[2], var, replacement), t[3], t[4],
                IF t[3] = var \/ t[4] = var THEN t[5]
                ELSE substitute(t[5], var, replacement))

\* ------------------------------------------------------------------------
\* lolli-core/src/sequent.rs
\* ------------------------------------------------------------------------

Sequent(linear, unrestricted, focus) ==
    [linear |-> linear, unrestricted |-> unrestricted, focus |-> focus]

Sequent_new(formulas) == Sequent(formulas, <<>>, None)

\* is_empty that also asks for an empty unrestricted zone.
is_empty_all_zones(seq) ==
    seq.linear = <<>> /\ seq.unrestricted = <<>> /\ seq.focus = None

is_empty(seq) == seq.linear = <<>> /\ seq.focus = None

TwoSidedSequent(antecedent, succedent) ==
    [antecedent |-> antecedent, succedent |-> succedent]

\* to_one_sided with the succedent in front.
to_one_sided_succedent_first(ts) ==
    Sequent_new(ts.succedent \o [i \in 1..Len(ts.antecedent) |-> negate(ts.antecedent[i])])

to_one_sided(ts) ==
    Sequent_new([i \in 1..Len(ts.antecedent) |-> negate(ts.antecedent[i])] \o ts.succedent)

\* Vec::remove(i) and v[i] = x, with the model's indices from 1.
remove(v, i) == [j \in 1..(Len(v) - 1) |-> IF j < i THEN v[j] ELSE v[j + 1]]

replace(v, i, x) == [v EXCEPT ![i] = x]

\* ------------------------------------------------------------------------
\* lolli-core/src/proof.rs
\* ------------------------------------------------------------------------

Proof(conclusion, rule, premises) ==
    [conclusion |-> conclusion, rule |-> rule, premises |-> premises]

RECURSIVE SumSeq(_)
SumSeq(s) == IF s = <<>> THEN 0 ELSE Head(s) + SumSeq(Tail(s))

RECURSIVE MaxSeq(_)
MaxSeq(s) ==
    IF s = <<>> THEN 0
    ELSE LET m == MaxSeq(Tail(s)) IN IF Head(s) > m THEN Head(s) ELSE m

\* A rule is a tuple: <<name>>, or <<"Cut", F>>, <<"FocusPositive", i>>,
\* <<"FocusNegative", i>> for the rules that carry a value.
Rule(name) == <<name>>

RECURSIVE cut_count(_)
cut_count(p) ==
    (IF p.rule[1] = "Cut" THEN 1 ELSE 0)
    + SumSeq([i \in 1..Len(p.premises) |-> cut_count(p.premises[i])])

is_cut_free(p) == cut_count(p) = 0

RECURSIVE Proof_depth(_)
Proof_depth(p) ==
    IF p.premises = <<>> THEN 1
    ELSE 1 + MaxSeq([i \in 1..Len(p.premises) |-> Proof_depth(p.premises[i])])

\* ------------------------------------------------------------------------
\* lolli-prove/src/search.rs
\* ------------------------------------------------------------------------

\* ProverStats::default()
ProverStats_default ==
    [sequents_explored |-> 0, cache_hits |-> 0, max_depth_reached |-> 0]

\* A Prover value.  max_depth, use_cache, cache and stats are the fields of
\* the struct.  trace and cur are history fields the program does not have:
\* trace lists one event per finished prove_with_depth call of the current
\* prove, cur is the goal of the prove_with_depth call that is executing
\* (None outside any).
Prover_new(max_depth) ==
    [max_depth |-> max_depth, use_cache |-> TRUE, cache |-> {},
     stats |-> ProverStats_default, trace |-> <<>>, cur |-> None]

reset(self) == [self EXCEPT !.cache = {}, !.stats = ProverStats_default]

\* What a search function returns: the prover as the call leaves it (&mut
\* self) and the Option<Proof>.
Ret(self, result) == [self |-> self, result |-> result]

Range(s) == {s[i] : i \in DOMAIN s}

\* keys.sort(): the sorted vector is the canonical form of the multiset of
\* its elements (two sorted vectors are equal exactly when the multisets
\* are), so the sorted Vec<String> is the function from each key to the
\* number of times it occurs.
sort(keys) == [k \in Range(keys) |-> Cardinality({i \in DOMAIN keys : keys[i] = k})]

sequent_key(seq) ==
    sort([i \in 1..Len(seq.linear) |-> pretty(seq.linear[i])]
         \o [i \in 1..Len(seq.unrestricted) |-> <<"?">> \o pretty(seq.unrestricted[i])])

\* all_splits: the element for mask m (0 <= m < 2^n) is at index m + 1.
Bit(mask, i) == (mask \div (2 ^ i)) % 2

Filter(items, idx) ==
    LET RECURSIVE pick(_, _)
        pick(i, acc) ==
            IF i > Len(items) THEN acc
            ELSE pick(i + 1, IF i \in idx THEN Append(acc, items[i]) ELSE acc)
    IN pick(1, <<>>)

split_of(items, mask) ==
    <<Filter(items, {i \in DOMAIN items : Bit(mask, i - 1) = 0}),
      Filter(items, {i \in DOMAIN items : Bit(mask, i - 1) # 0})>>

\* all_splits with the masks taken from the highest down.
all_splits_descending(items) ==
    IF items = <<>> THEN << <<<<>>, <<>>>> >>
    ELSE [m \in 1..(2 ^ Len(items)) |-> split_of(items, 2 ^ Len(items) - m)]

all_splits(items) ==
    IF items = <<>> THEN << <<<<>>, <<>>>> >>
    ELSE [m \in 1..(2 ^ Len(items)) |-> split_of(items, m - 1)]

RECURSIVE prove_with_depth(_, _, _)

\* par_premise with B lost: only A is appended.
par_premise_lost(seq, i) ==
    Sequent(Append(remove(seq.linear, i), seq.linear[i][2]), seq.unrestricted, None)

\* The sequents the rules build (each is the `new_seq` of its arm).
par_premise(seq, i) ==
    Sequent(remove(seq.linear, i) \o <<seq.linear[i][2], seq.linear[i][3]>>,
            seq.unrestricted, None)

bottom_premise(seq, i) == Sequent(remove(seq.linear, i), seq.unrestricted, None)

with_left(seq, i) ==
    Sequent(Append(remove(seq.linear, i), seq.linear[i][2]), seq.unrestricted, None)

with_right(seq, i) ==
    Sequent(Append(remove(seq.linear, i), seq.linear[i][3]), seq.unrestricted, None)

whynot_premise(seq, i) ==
    Sequent(remove(seq.linear, i), Append(seq.unrestricted, seq.linear[i][2]), None)

lolli_rewrite(seq, i) ==
    Sequent(replace(seq.linear, i, Par(negate(seq.linear[i][2]), seq.linear[i][3])),
            seq.unrestricted, None)

\* dereliction_premise with the formula kept in the unrestricted zone.
dereliction_premise_kept(seq, i) ==
    Sequent(Append(seq.linear, seq.unrestricted[i]), seq.unrestricted, None)

dereliction_premise(seq, i) ==
    Sequent(Append(seq.linear, seq.unrestricted[i]), remove(seq.unrestricted, i), None)

contraction_premise(seq, i) ==
    Sequent(seq.linear \o <<seq.unrestricted[i], seq.unrestricted[i]>>,
            remove(seq.unrestricted, i), None)

weakening_premise(seq, i) == Sequent(seq.linear, remove(seq.unrestricted, i), None)

tensor_left(seq, idx, split) ==
    Sequent(Append(split[1], seq.linear[idx][2]), seq.unrestricted, None)

tensor_right(seq, idx, split) ==
    Sequent(Append(split[2], seq.linear[idx][3]), seq.unrestricted, None)

plus_left(seq, idx) ==
    Sequent(replace(seq.linear, idx, seq.linear[idx][2]), seq.unrestricted, None)

plus_right(seq, idx) ==
    Sequent(replace(seq.linear, idx, seq.linear[idx][3]), seq.unrestricted, None)

ofcourse_premise(seq, idx) == Sequent(<<seq.linear[idx][2]>>, seq.unrestricted, None)

\* one_premise with the node built over new_seq instead of seq.
one_premise_misplaced(self, seq, depth, new_seq, rule) ==
    LET r == prove_with_depth(self, new_seq, depth + 1)
    IN IF r.result # None
       THEN Ret(r.self, Some(Proof(new_seq, Rule(rule), <<r.result[1]>>)))
       ELSE Ret(r.self, None)

\* One premise at depth + 1; on success the node `rule` over it.
one_premise(self, seq, depth, new_seq, rule) ==
    LET r == prove_with_depth(self, new_seq, depth + 1)
    IN IF r.result # None
       THEN Ret(r.self, Some(Proof(seq, Rule(rule), <<r.result[1]>>)))
       ELSE Ret(r.self, None)

\* Two premises at depth + 1, the right one tried only when the left one is
\* proved; on success the node `rule` over both.
two_premises(self, seq, depth, left_seq, right_seq, rule) ==
    LET l == prove_with_depth(self, left_seq, depth + 1)
    IN IF l.result = None THEN Ret(l.self, None)
       ELSE LET r == prove_with_depth(l.self, right_seq, depth + 1)
            IN IF r.result # None
               THEN Ret(r.self, Some(Proof(seq, Rule(rule), <<l.result[1], r.result[1]>>)))
               ELSE Ret(r.self, None)

\* try_dereliction, try_contraction, try_weakening: `for i in
\* 0..seq.unrestricted.len()`, from index i on.
RECURSIVE try_dereliction_from(_, _, _, _)
try_dereliction_from(self, seq, depth, i) ==
    IF i > Len(seq.unrestricted) THEN Ret(self, None)
    ELSE LET r == one_premise(self, seq, depth, dereliction_premise(seq, i), "Dereliction")
         IN IF r.result # None THEN r
            ELSE try_dereliction_from(r.self, seq, depth, i + 1)

try_dereliction(self, seq, depth) == try_dereliction_from(self, seq, depth, 1)

RECURSIVE try_contraction_from(_, _, _, _)
try_contraction_from(self, seq, depth, i) ==
    IF i > Len(seq.unrestricted) THEN Ret(self, None)
    ELSE LET r == one_premise(self, seq, depth, contraction_premise(seq, i), "Contraction")
         IN IF r.result # None THEN r
            ELSE try_contraction_from(r.self, seq, depth, i + 1)

try_contraction(self, seq, depth) == try_contraction_from(self, seq, depth, 1)

RECURSIVE try_weakening_from(_, _, _, _)
try_weakening_from(self, seq, depth, i) ==
    IF i > Len(seq.unrestricted) THEN Ret(self, None)
    ELSE LET r == one_premise(self, seq, depth, weakening_premise(seq, i), "Weakening")
         IN IF r.result # None THEN r
            ELSE try_weakening_from(r.self, seq, depth, i + 1)

try_weakening(self, seq, depth) == try_weakening_from(self, seq, depth, 1)

\* prove_focused, Atom arm: an Axiom when some other formula is the negated
\* atom of the same name and the linear zone holds exactly two formulas.
\* focus_atom without the check that the two atoms are the whole sequent.
focus_atom_any_context(seq, idx) ==
    IF \E j \in 1..Len(seq.linear) :
          /\ j # idx
          /\ seq.linear[j] = NegAtom(seq.linear[idx][2])
    THEN Some(Proof(seq, Rule("Axiom"), <<>>))
    ELSE None

\* prove_focused, Atom arm.
focus_atom(seq, idx) ==
    IF \E j \in 1..Len(seq.linear) :
          /\ j # idx
          /\ seq.linear[j] = NegAtom(seq.linear[idx][2])
          /\ Len(seq.linear) = 2
    THEN Some(Proof(seq, Rule("Axiom"), <<>>))
    ELSE None

\* focus_one with the focusing step recorded as the rule.
focus_one_tagged(seq, idx) ==
    IF Len(seq.linear) = 1 THEN Some(Proof(seq, <<"FocusPositive", idx>>, <<>>)) ELSE None

\* prove_focused, One arm.
focus_one(seq, idx) ==
    IF Len(seq.linear) = 1 THEN Some(Proof(seq, Rule("OneIntro"), <<>>)) ELSE None

\* prove_focused, Tensor arm: `for split in all_splits(&other_formulas)`, from
\* the k-th split on.
RECURSIVE focus_tensor_from(_, _, _, _, _, _)
focus_tensor_from(self, seq, idx, depth, splits, k) ==
    IF k > Len(splits) THEN Ret(self, None)
    ELSE LET r == two_premises(self, seq, depth, tensor_left(seq, idx, splits[k]),
                               tensor_right(seq, idx, splits[k]), "TensorIntro")
         IN IF r.result # None THEN r
            ELSE focus_tensor_from(r.self, seq, idx, depth, splits, k + 1)

focus_tensor(self, seq, idx, depth) ==
    focus_tensor_from(self, seq, idx, depth, all_splits(remove(seq.linear, idx)), 1)

\* focus_plus with the right premise tried first.
focus_plus_right_first(self, seq, idx, depth) ==
    LET r == one_premise(self, seq, depth, plus_right(seq, idx), "PlusIntroRight")
    IN IF r.result # None THEN r
       ELSE one_premise(r.self, seq, depth, plus_left(seq, idx), "PlusIntroLeft")

\* prove_focused, Plus arm: left, then right.
focus_plus(self, seq, idx, depth) ==
    LET l == one_premise(self, seq, depth, plus_left(seq, idx), "PlusIntroLeft")
    IN IF l.result # None THEN l
       ELSE one_premise(l.self, seq, depth, plus_right(seq, idx), "PlusIntroRight")

\* prove_focused, OfCourse arm.
focus_ofcourse(self, seq, idx, depth) ==
    IF Len(seq.linear) = 1
    THEN one_premise(self, seq, depth, ofcourse_premise(seq, idx), "OfCourseIntro")
    ELSE Ret(self, None)

prove_focused(self, seq, idx, depth) ==
    LET formula == seq.linear[idx]
    IN CASE Tag(formula) = "Atom" -> Ret(self, focus_atom(seq, idx))
         [] Tag(formula) = "One" -> Ret(self, focus_one(seq, idx))
         [] Tag(formula) = "Zero" -> Ret(self, None)
         [] Tag(formula) = "Tensor" -> focus_tensor(self, seq, idx, depth)
         [] Tag(formula) = "Plus" -> focus_plus(self, seq, idx, depth)
         [] Tag(formula) = "OfCourse" -> focus_ofcourse(self, seq, idx, depth)
         [] OTHER -> Ret(self, None)

try_axiom(seq, neg_idx) ==
    IF /\ Tag(seq.linear[neg_idx]) = "NegAtom"
       /\ \E j \in 1..Len(seq.linear) :
             /\ j # neg_idx
             /\ seq.linear[j] = Atom(seq.linear[neg_idx][2])
             /\ Len(seq.linear) = 2
    THEN Some(Proof(seq, Rule("Axiom"), <<>>))
    ELSE None

\* prove_sync, first loop: focus on each positive formula, from index i on.
RECURSIVE sync_positive_from(_, _, _, _)
sync_positive_from(self, seq, depth, i) ==
    IF i > Len(seq.linear) THEN Ret(self, None)
    ELSE IF is_positive(seq.linear[i])
         THEN LET r == prove_focused(self, seq, i, depth)
              IN IF r.result # None THEN r
                 ELSE sync_positive_from(r.self, seq, depth, i + 1)
         ELSE sync_positive_from(self, seq, depth, i + 1)

\* prove_sync, second loop: the axiom from each negated atom, from index i on.
RECURSIVE sync_negatom_from(_, _)
sync_negatom_from(seq, i) ==
    IF i > Len(seq.linear) THEN None
    ELSE IF Tag(seq.linear[i]) = "NegAtom" /\ try_axiom(seq, i) # None
         THEN try_axiom(seq, i)
         ELSE sync_negatom_from(seq, i + 1)

\* prove_sync, the structural rules: dereliction, contraction, weakening.
sync_structural(self, seq, depth) ==
    IF seq.unrestricted = <<>> THEN Ret(self, None)
    ELSE LET d == try_dereliction(self, seq, depth)
         IN IF d.result # None THEN d
            ELSE LET c == try_contraction(d.self, seq, depth)
                 IN IF c.result # None THEN c
                    ELSE try_weakening(c.self, seq, depth)

prove_sync(self, seq, depth) ==
    LET p == sync_positive_from(self, seq, depth, 1)
    IN IF p.result # None THEN p
       ELSE IF sync_negatom_from(seq, 1) # None
            THEN Ret(p.self, sync_negatom_from(seq, 1))
            ELSE sync_structural(p.self, seq, depth)

\* The arms of prove_async's match: the formulas the asynchronous phase
\* decomposes.
\* is_async without the Top arm.
is_async_no_top(f) == Tag(f) \in {"Par", "Bottom", "With", "WhyNot", "Lolli"}

\* The formulas prove_async has an arm for.
is_async(f) == Tag(f) \in {"Par", "Bottom", "Top", "With", "WhyNot", "Lolli"}

\* The index the loop of prove_async stops at: the first formula of the
\* linear zone with an arm (0: none).
\* first_async that stops at the last formula with an arm.
last_async(linear) ==
    IF \E i \in 1..Len(linear) : is_async(linear[i])
    THEN CHOOSE i \in 1..Len(linear) :
            /\ is_async(linear[i])
            /\ \A j \in (i + 1)..Len(linear) : ~is_async(linear[j])
    ELSE 0

first_async(linear) ==
    IF \E i \in 1..Len(linear) : is_async(linear[i])
    THEN CHOOSE i \in 1..Len(linear) :
            /\ is_async(linear[i])
            /\ \A j \in 1..(i - 1) : ~is_async(linear[j])
    ELSE 0

\* prove_async with the rewritten sequent searched one level deeper.
prove_async_lolli_deeper(self, seq, depth) ==
    IF is_empty(seq) THEN Ret(self, None)
    ELSE LET i == first_async(seq.linear)
             formula == seq.linear[i]
         IN IF i = 0 THEN prove_sync(self, seq, depth)
            ELSE CASE Tag(formula) = "Par" ->
                        one_premise(self, seq, depth, par_premise(seq, i), "ParIntro")
                   [] Tag(formula) = "Bottom" ->
                        one_premise(self, seq, depth, bottom_premise(seq, i), "BottomIntro")
                   [] Tag(formula) = "Top" ->
                        Ret(self, Some(Proof(seq, Rule("TopIntro"), <<>>)))
                   [] Tag(formula) = "With" ->
                        two_premises(self, seq, depth, with_left(seq, i),
                                     with_right(seq, i), "WithIntro")
                   [] Tag(formula) = "WhyNot" ->
                        one_premise(self, seq, depth, whynot_premise(seq, i), "WhyNotIntro")
                   [] Tag(formula) = "Lolli" ->
                        prove_with_depth(self, lolli_rewrite(seq, i), depth + 1)

prove_async(self, seq, depth) ==
    IF is_empty(seq) THEN Ret(self, None)
    ELSE LET i == first_async(seq.linear)
             formula == seq.linear[i]
         IN IF i = 0 THEN prove_sync(self, seq, depth)
            ELSE CASE Tag(formula) = "Par" ->
                        one_premise(self, seq, depth, par_premise(seq, i), "ParIntro")
                   [] Tag(formula) = "Bottom" ->
                        one_premise(self, seq, depth, bottom_premise(seq, i), "BottomIntro")
                   [] Tag(formula) = "Top" ->
                        Ret(self, Some(Proof(seq, Rule("TopIntro"), <<>>)))
                   [] Tag(formula) = "With" ->
                        two_premises(self, seq, depth, with_left(seq, i),
                                     with_right(seq, i), "WithIntro")
                   [] Tag(formula) = "WhyNot" ->
                        one_premise(self, seq, depth, whynot_premise(seq, i), "WhyNotIntro")
                   [] Tag(formula) = "Lolli" ->
                        prove_with_depth(self, lolli_rewrite(seq, i), depth)

\* depth_exceeded, off by one.
depth_exceeded_late(self, depth) == depth > self.max_depth + 1

\* `depth > self.max_depth`
depth_exceeded(self, depth) == depth > self.max_depth

\* cache_negative that inserts after a successful search too.
cache_negative_always(self, seq, result) ==
    IF self.use_cache
    THEN [self EXCEPT !.cache = @ \cup {sequent_key(seq)}]
    ELSE self

\* `self.cache.insert(key)` after a failed search.
cache_negative(self, seq, result) ==
    IF result = None /\ self.use_cache
    THEN [self EXCEPT !.cache = @ \cup {sequent_key(seq)}]
    ELSE self

\* The event prove_with_depth leaves in the trace: its goal, its caller's
\* goal, how it ended, and what it saw of the cache and the statistics.
Event(seq, depth, caller, outcome, entry, searched, exit) ==
    [seq |-> seq, depth |-> depth, caller |-> caller, outcome |-> outcome,
     key_at_entry |-> sequent_key(seq) \in entry.cache,
     key_after_search |-> sequent_key(seq) \in searched.cache,
     key_at_exit |-> sequent_key(seq) \in exit.cache,
     explored_at_entry |-> entry.stats.sequents_explored,
     explored_at_exit |-> exit.stats.sequents_explored]

Traced(self, event) == [self EXCEPT !.trace = Append(@, event)]

prove_with_depth(self, seq, depth) ==
    LET counted ==
            [self EXCEPT !.stats.sequents_explored = @ + 1,
                         !.stats.max_depth_reached = IF depth > @ THEN depth ELSE @]
    IN IF depth_exceeded(counted, depth)
       THEN Ret(Traced(counted, Event(seq, depth, self.cur, "over_depth", self, counted, counted)),
                None)
       ELSE IF counted.use_cache /\ sequent_key(seq) \in counted.cache
       THEN LET hit == [counted EXCEPT !.stats.cache_hits = @ + 1]
            IN Ret(Traced(hit, Event(seq, depth, self.cur, "cache_hit", self, hit, hit)), None)
       ELSE LET r == prove_async([counted EXCEPT !.cur = Some([seq |-> seq, depth |-> depth])],
                                 seq, depth)
                searched == [r.self EXCEPT !.cur = self.cur]
                exit == cache_negative(searched, seq, r.result)
            IN Ret(Traced(exit, Event(seq, depth, self.cur,
                                      IF r.result = None THEN "failed" ELSE "proved",
                                      self, searched, exit)),
                   r.result)

prove(self, seq) ==
    prove_with_depth([self EXCEPT !.stats = ProverStats_default, !.trace = <<>>, !.cur = None],
                     seq, 0)

prove_two_sided(self, ts) == prove(self, to_one_sided(ts))

\* ------------------------------------------------------------------------
\* lolli-extract/src/lib.rs
\* ------------------------------------------------------------------------

Extractor_new == [var_counter |-> 0]

\* format!("x{}", self.var_counter): the name is the pair of "x" and the
\* counter.
fresh_var(self) ==
    [self |-> [self EXCEPT !.var_counter = @ + 1], result |-> <<"x", self.var_counter>>]

\* Extractor::extract: the proof is not looked at.
extract(self, proof) == [self |-> self, result |-> Unit]

\* ------------------------------------------------------------------------
\* lolli-codegen/src/types.rs, codegen.rs
\* ------------------------------------------------------------------------

\* A String is the sequence of the pieces format! puts together: each
\* literal piece of a format string is one element.
TypeGenerator_new == [use_lifetimes |-> FALSE]

RECURSIVE generate(_)
generate(formula) ==
    CASE Tag(formula) = "Atom" -> <<formula[2]>>
      [] Tag(formula) = "NegAtom" -> <<formula[2], "Dual">>
      [] Tag(formula) = "Tensor" ->
           <<"(">> \o generate(formula[2]) \o <<", ">> \o generate(formula[3]) \o <<")">>
      [] Tag(formula) = "Par" ->
           <<"Par<">> \o generate(formula[2]) \o <<", ">> \o generate(formula[3]) \o <<">">>
      [] Tag(formula) = "Lolli" ->
           <<"impl FnOnce(">> \o generate(formula[2]) \o <<") -> ">> \o generate(formula[3])
      [] Tag(formula) = "With" ->
           <<"With<">> \o generate(formula[2]) \o <<", ">> \o generate(formula[3]) \o <<">">>
      [] Tag(formula) = "Plus" ->
           <<"Either<">> \o generate(formula[2]) \o <<", ">> \o generate(formula[3]) \o <<">">>
      [] Tag(formula) = "OfCourse" -> <<"Rc<">> \o generate(formula[2]) \o <<">">>
      [] Tag(formula) = "WhyNot" -> <<"Demand<">> \o generate(formula[2]) \o <<">">>
      [] Tag(formula) = "One" -> <<"()">>
      [] Tag(formula) = "Bottom" -> <<"!">>
      [] Tag(formula) = "Top" -> <<"Top">>
      [] Tag(formula) = "Zero" -> <<"Void">>

\* parts.join(sep)
RECURSIVE join(_, _)
join(parts, sep) ==
    IF parts = <<>> THEN <<>>
    ELSE IF Len(parts) = 1 THEN parts[1]
    ELSE parts[1] \o sep \o join(Tail(parts), sep)

\* generate_return that leaves out the parentheses of the tuple.
generate_return_bare(formulas) ==
    IF Len(formulas) = 0 THEN <<"()">>
    ELSE IF Len(formulas) = 1 THEN generate(formulas[1])
    ELSE join([i \in DOMAIN formulas |-> generate(formulas[i])], <<", ">>)

generate_return(formulas) ==
    IF Len(formulas) = 0 THEN <<"()">>
    ELSE IF Len(formulas) = 1 THEN generate(formulas[1])
    ELSE <<"(">> \o join([i \in DOMAIN formulas |-> generate(formulas[i])], <<", ">>) \o <<")">>

RustCodegen_new == [indent |-> 0, types |-> TypeGenerator_new, var_counter |-> 0]

\* "    ".repeat(self.indent)
indent_str(self) == [i \in 1..self.indent |-> "    "]

RECURSIVE term_to_code(_)
term_to_code(term) ==
    CASE Tag(term) = "Var" -> <<term[2]>>
      [] Tag(term) = "Unit" -> <<"()">>
      [] Tag(term) = "Trivial" -> <<"Top">>
      [] Tag(term) = "Pair" ->
           <<"(">> \o term_to_code(term[2]) \o <<", ">> \o term_to_code(term[3]) \o <<")">>
      [] Tag(term) = "LetPair" ->
           <<"{ let (", term[2], ", ", term[3], ") = ">> \o term_to_code(term[4])
           \o <<"; ">> \o term_to_code(term[5]) \o <<" }">>
      [] Tag(term) = "Abs" -> <<"|", term[2], "| ">> \o term_to_code(term[3])
      [] Tag(term) = "App" ->
           IF Tag(term[2]) = "Abs"
           THEN <<"(">> \o term_to_code(term[2]) \o <<")(">> \o term_to_code(term[3]) \o <<")">>
           ELSE term_to_code(term[2]) \o <<"(">> \o term_to_code(term[3]) \o <<")">>
      [] Tag(term) = "Inl" -> <<"Either::Left(">> \o term_to_code(term[2]) \o <<")">>
      [] Tag(term) = "Inr" -> <<"Either::Right(">> \o term_to_code(term[2]) \o <<")">>
      [] Tag(term) = "Case" ->
           <<"match ">> \o term_to_code(term[2])
           \o <<" { Either::Left(", term[3], ") => ">> \o term_to_code(term[4])
           \o <<", Either::Right(", term[5], ") => ">> \o term_to_code(term[6]) \o <<" }">>
      [] Tag(term) = "Fst" -> term_to_code(term[2]) \o <<".0">>
      [] Tag(term) = "Snd" -> term_to_code(term[2]) \o <<".1">>
      [] Tag(term) = "Abort" -> <<"match ">> \o term_to_code(term[2]) \o <<" {}">>
      [] Tag(term) = "Promote" -> <<"Rc::new(">> \o term_to_code(term[2]) \o <<")">>
      [] Tag(term) = "Derelict" ->
           <<"Rc::try_unwrap(">> \o term_to_code(term[2])
           \o <<").unwrap_or_else(|rc| (*rc).clone())">>
      [] Tag(term) = "Discard" -> term_to_code(term[3])
      [] Tag(term) = "Copy" ->
           <<"{ let ", term[3], " = Rc::clone(&">> \o term_to_code(term[2])
           \o <<"); let ", term[4], " = ">> \o term_to_code(term[2])
           \o <<"; ">> \o term_to_code(term[5]) \o <<" }">>

\* format!("arg{}", i), i counted from 0: the pieces "arg" and the number.
arg_name(i) == <<"arg", i>>

generate_function(self, name, sequent, term) ==
    LET args == [k \in DOMAIN sequent.antecedent |->
                    arg_name(k - 1) \o <<": ">> \o generate(sequent.antecedent[k])]
        return_type == generate_return(sequent.succedent)
        signature == <<"fn ", name, "(">> \o join(args, <<", ">>) \o <<") -> ">>
                     \o return_type \o <<" {">>
        inner == [self EXCEPT !.indent = @ + 1]
        body == indent_str(inner) \o term_to_code(term)
        after == [inner EXCEPT !.indent = @ - 1]
    IN [self |-> after, result |-> join(<<signature, body, <<"}">>>>, <<"\n">>)]

\* ------------------------------------------------------------------------
\* The inputs
\* ------------------------------------------------------------------------

\* The largest depth budget a prover is given, and the number of prove calls
\* a reused prover serves.
MaxDepth == 4
MaxCalls == 2

AtomNames == {"A", "B"}

Leaves ==
    {Atom(a) : a \in AtomNames} \cup {NegAtom(a) : a \in AtomNames}
    \cup {One, Bottom, Top, Zero}

\* Every formula with at most one connective.
Formulas1 ==
    Leaves
    \cup {Tensor(a, b) : a, b \in Leaves} \cup {Par(a, b) : a, b \in Leaves}
    \cup {With(a, b) : a, b \in Leaves} \cup {Plus(a, b) : a, b \in Leaves}
    \cup {Lolli(a, b) : a, b \in Leaves}
    \cup {OfCourse(a) : a \in Leaves} \cup {WhyNot(a) : a \in Leaves}

A == Atom("A")
B == Atom("B")

\* The two-sided sequents of the tests of search.rs and of the scenarios of
\* the specification.
TwoSidedGoals ==
    { TwoSidedSequent(<<A>>, <<A>>),
      TwoSidedSequent(<<A, B>>, <<Tensor(A, B)>>),
      TwoSidedSequent(<<Tensor(A, B)>>, <<Tensor(B, A)>>),
      TwoSidedSequent(<<With(A, B)>>, <<A>>),
      TwoSidedSequent(<<A>>, <<Plus(A, B)>>),
      TwoSidedSequent(<<A>>, <<Tensor(A, A)>>),
      TwoSidedSequent(<<A, B>>, <<A>>),
      TwoSidedSequent(<<>>, <<One>>),
      TwoSidedSequent(<<A, B>>, <<Top>>),
      TwoSidedSequent(<<>>, <<Lolli(A, A)>>),
      TwoSidedSequent(<<OfCourse(A)>>, <<OfCourse(A)>>),
      TwoSidedSequent(<<OfCourse(A)>>, <<A>>),
      TwoSidedSequent(<<OfCourse(A)>>, <<Tensor(A, A)>>),
      TwoSidedSequent(<<OfCourse(A)>>, <<One>>),
      TwoSidedSequent(<<OfCourse(A)>>, <<Tensor(OfCourse(A), OfCourse(A))>>),
      TwoSidedSequent(<<OfCourse(A)>>, <<Tensor(A, Tensor(A, A))>>) }

\* Sequents of two atoms or negated atoms and a tensor of two.
MultiplicativeGoals ==
    LET Lits == {A, B, NegAtom("A"), NegAtom("B")}
    IN {Sequent_new(<<l, m, Tensor(a, b)>>) : l, m, a, b \in Lits}

\* Sequents with Top behind two other formulas.
TopGoals ==
    LET Before == {A, One, Bottom, Par(A, B), With(A, B), WhyNot(A), Lolli(A, B)}
    IN {Sequent_new(<<f, g, Top>>) : f, g \in Before}

\* The one-sided sequents prove is called on: every sequent of one formula
\* with at most one connective, every sequent of two leaves, and sequents
\* with an unrestricted zone.
Goals ==
    {Sequent_new(<<f>>) : f \in Formulas1}
    \cup {Sequent_new(<<f, g>>) : f, g \in Leaves}
    \cup {Sequent(<<f>>, <<g>>, None) : f, g \in Leaves}
    \cup {Sequent(<<>>, <<g>>, None) : g \in Leaves}
    \cup {Sequent(<<A>>, <<g, h>>, None) : g, h \in {NegAtom("A"), One, Bottom}}
    \cup {Sequent_new(<<>>)}
    \cup {Sequent_new(<<WhyNot(g), Tensor(a, b)>>) : g, a, b \in {One, Bottom, A, NegAtom("A")}}
    \cup {Sequent_new(<<Plus(OfCourse(Par(NegAtom("A"), A)), Par(NegAtom("A"), A))>>),
          Sequent_new(<<Par(Lolli(A, A), Bottom)>>),
          Sequent_new(<<Lolli(Lolli(A, B), Lolli(A, B))>>),
          Sequent_new(<<OfCourse(Lolli(A, A))>>)}
    \cup MultiplicativeGoals
    \cup TopGoals

\* The sequents a reused prover is called on.
ReuseGoals ==
    {Sequent_new(<<f, g>>) : f, g \in {One, Bottom, Top}}
    \cup {Sequent_new(<<Par(f, g)>>) : f, g \in {One, Bottom, Top}}

\* The formulas the operations of the formula algebra are applied to: every
\* formula with at most one connective, and every formula with one
\* connective over the formulas with at most one connective over A and
\* Bottom.
Inner ==
    LET L2 == {A, Bottom}
    IN L2 \cup {Tensor(a, b) : a, b \in L2} \cup {Par(a, b) : a, b \in L2}
          \cup {With(a, b) : a, b \in L2} \cup {Plus(a, b) : a, b \in L2}
          \cup {Lolli(a, b) : a, b \in L2}
          \cup {OfCourse(a) : a \in L2} \cup {WhyNot(a) : a \in L2}

Formulas2 ==
    Formulas1
    \cup {Tensor(a, b) : a, b \in Inner} \cup {Par(a, b) : a, b \in Inner}
    \cup {With(a, b) : a, b \in Inner} \cup {Plus(a, b) : a, b \in Inner}
    \cup {Lolli(a, b) : a, b \in Inner}
    \cup {OfCourse(a) : a \in Inner} \cup {WhyNot(a) : a \in Inner}

\* Formulas with a Lolli in the antecedent of a Lolli in the antecedent of a
\* Lolli.
Formulas3 == {Lolli(Lolli(f, a), b) : f \in Inner, a, b \in {A, Bottom}}

\* The two-sided sequents to_one_sided is applied to: up to two formulas on
\* each side.
SideFormulas == {A, NegAtom("B"), One, Top, Tensor(A, B), Lolli(A, B), OfCourse(A)}

Sides == {<<>>} \cup {<<f>> : f \in SideFormulas} \cup {<<f, g>> : f, g \in SideFormulas}

TwoSidedInputs == {TwoSidedSequent(a, s) : a, s \in Sides}

\* The two-sided sequents of the extract command: one or two antecedents
\* among atoms, tensors, pluses and withs, and one succedent.
ExtractGoals ==
    LET Ante == {A, B, Tensor(A, B), Plus(A, B), With(A, B)}
        Succ == {A, B, Tensor(A, B), Tensor(B, A), Plus(A, B), With(A, B), With(A, A)}
    IN {TwoSidedSequent(<<a>>, <<s>>) : a \in Ante, s \in Succ}
       \cup {TwoSidedSequent(<<a, b>>, <<s>>) : a, b \in {A, B}, s \in Succ}

\* The terms generate_function is given as the body.
CodegenTerms == {Unit, Var("arg0"), Pair(Var("arg0"), Var("arg1"))}

\* The terms substitute is applied to: every term with at most one
\* constructor over the variables x and y.
\* The sequents whose keys are compared: zones of at most two formulas among
\* A and ?A, in every order.
KeyFormulas == {A, WhyNot(A)}

KeyZones == {<<>>} \cup {<<f>> : f \in KeyFormulas} \cup {<<f, g>> : f, g \in KeyFormulas}

KeySequents == {Sequent(l, u, None) : l, u \in KeyZones}

VarNames == {"x", "y"}

TermLeaves == {Var(v) : v \in VarNames} \cup {Unit, Trivial}

Terms1 ==
    TermLeaves
    \cup {Pair(a, b) : a, b \in TermLeaves} \cup {App(a, b) : a, b \in TermLeaves}
    \cup {Discard(a, b) : a, b \in TermLeaves}
    \cup {Abs(x, a) : x \in VarNames, a \in TermLeaves}
    \cup {Inl(a) : a \in TermLeaves} \cup {Inr(a) : a \in TermLeaves}
    \cup {Fst(a) : a \in TermLeaves} \cup {Snd(a) : a \in TermLeaves}
    \cup {Abort(a) : a \in TermLeaves} \cup {Promote(a) : a \in TermLeaves}
    \cup {Derelict(a) : a \in TermLeaves}
    \cup {LetPair(x, y, a, b) : x, y \in VarNames, a, b \in TermLeaves}
    \cup {Copy(a, x, y, b) : x, y \in VarNames, a, b \in TermLeaves}
    \cup {Case(a, x, b, y, c) : x, y \in VarNames, a, b, c \in TermLeaves}

\* The replacement terms.
Replacements == {Var("x"), Var("y"), Unit, Pair(Var("x"), Var("y"))}

\* ------------------------------------------------------------------------
\* The state machine
\* ------------------------------------------------------------------------

\* prover: the Prover value.  goal: the sequent of the last prove call, as
\* the caller passed it (None before any).  result: what that call returned.
\* calls: the number of prove calls this prover has served.
\* fml, fop, fout: a formula, the operation of the formula algebra applied to
\* it last ("" before any) and what it returned.
VARIABLES prover, goal, result, calls, fml, fop, fout

vars == <<prover, goal, result, calls, fml, fop, fout>>

algebra == <<fml, fop, fout>>

search == <<prover, goal, result, calls>>

\* let mut prover = Prover::new(depth)
New(d) ==
    /\ prover' = Prover_new(d)
    /\ goal' = None
    /\ result' = None
    /\ calls' = 0
    /\ UNCHANGED algebra

\* prover.use_cache = b (a public field), before the prover is used
SetUseCache(b) ==
    /\ calls = 0
    /\ prover.use_cache # b
    /\ prover' = [prover EXCEPT !.use_cache = b]
    /\ UNCHANGED <<goal, result, calls>>
    /\ UNCHANGED algebra

\* prover.prove(&seq)
Prove(seq) ==
    /\ LET r == prove(prover, seq)
       IN /\ prover' = r.self
          /\ result' = r.result
    /\ goal' = Some(seq)
    /\ calls' = calls + 1
    /\ UNCHANGED algebra

\* prover.prove_two_sided(&ts)
ProveTwoSided(ts) ==
    /\ LET r == prove_two_sided(prover, ts)
       IN /\ prover' = r.self
          /\ result' = r.result
    /\ goal' = Some(to_one_sided(ts))
    /\ calls' = calls + 1
    /\ UNCHANGED algebra

Init ==
    /\ prover \in {Prover_new(d) : d \in 0..MaxDepth}
    /\ goal = None
    /\ result = None
    /\ calls = 0
    /\ fml = One
    /\ fop = ""
    /\ fout = None

\* One request, as the command line serves it: a new prover, one search.
Next ==
    \/ \E d \in 0..MaxDepth : calls > 0 /\ New(d)
    \/ \E b \in BOOLEAN : SetUseCache(b)
    \/ \E seq \in Goals : calls = 0 /\ Prove(seq)
    \/ \E ts \in TwoSidedGoals : calls = 0 /\ ProveTwoSided(ts)

Spec == Init /\ [][Next]_vars

\* prover.reset()
Reset ==
    /\ calls > 0
    /\ prover' = reset(prover)
    /\ calls' = 0
    /\ UNCHANGED <<goal, result>>
    /\ UNCHANGED algebra

\* prover.max_depth = d (a public field)
SetMaxDepth(d) ==
    /\ prover.max_depth # d
    /\ prover' = [prover EXCEPT !.max_depth = d]
    /\ UNCHANGED <<goal, result, calls>>
    /\ UNCHANGED algebra

\* A prover that serves several prove calls, as a library caller may use it.
NextReuse ==
    \/ \E seq \in ReuseGoals : calls < MaxCalls /\ Prove(seq)
    \/ \E d \in 0..MaxDepth : SetMaxDepth(d)
    \/ Reset

SpecReuse == Init /\ [][NextReuse]_vars

\* A two-sided sequent as the receiver kept in fml.
Receiver(ts) == <<"TwoSidedSequent", ts>>

IsFormula(x) == Tag(x) # "TwoSidedSequent"

\* The extract command: prove the one-sided form of a two-sided sequent with
\* a new prover, then extract the term of the proof with a new extractor.
\* fml keeps the two-sided sequent.
ExtractCommand(ts) ==
    /\ calls = 0
    /\ LET r == prove(prover, to_one_sided(ts))
       IN /\ prover' = r.self
          /\ result' = r.result
          /\ fout' = IF r.result = None THEN None
                     ELSE Some(extract(Extractor_new, r.result[1]).result)
    /\ goal' = Some(to_one_sided(ts))
    /\ calls' = calls + 1
    /\ fml' = Receiver(ts)
    /\ fop' = "extract"

NextExtract ==
    \/ \E b \in BOOLEAN : SetUseCache(b)
    \/ \E ts \in ExtractGoals : ExtractCommand(ts)

SpecExtract == Init /\ [][NextExtract]_vars

\* The code generator: codegen.generate_function(name, sequent, term), with
\* fml = <<codegen, name, sequent, term>>.
\* sequent_key(&self, seq) on two sequents.
InitKey ==
    /\ fml \in KeySequents \X KeySequents
    /\ fop = ""
    /\ fout = None
    /\ prover = Prover_new(MaxDepth)
    /\ goal = None
    /\ result = None
    /\ calls = 0

SequentKey ==
    /\ fop = ""
    /\ fop' = "sequent_key"
    /\ fout' = <<sequent_key(fml[1]), sequent_key(fml[2])>>
    /\ UNCHANGED fml
    /\ UNCHANGED search

NextKey == SequentKey

SpecKey == InitKey /\ [][NextKey]_vars

InitCodegen ==
    /\ fml \in {<<RustCodegen_new, "f", ts, t>> : ts \in TwoSidedInputs, t \in CodegenTerms}
    /\ fop = ""
    /\ fout = None
    /\ prover = Prover_new(MaxDepth)
    /\ goal = None
    /\ result = None
    /\ calls = 0

GenerateFunction ==
    /\ fop = ""
    /\ fop' = "generate_function"
    /\ fout' = Some(generate_function(fml[1], fml[2], fml[3], fml[4]))
    /\ UNCHANGED fml
    /\ UNCHANGED search

NextCodegen == GenerateFunction

SpecCodegen == InitCodegen /\ [][NextCodegen]_vars

\* The term algebra: t.substitute(var, replacement) and t.free_vars(), with
\* fml = <<t, var, replacement>>.
InitTerm ==
    /\ fml \in {<<t, v, r>> : t \in Terms1, v \in VarNames, r \in Replacements}
    /\ fop = ""
    /\ fout = None
    /\ prover = Prover_new(MaxDepth)
    /\ goal = None
    /\ result = None
    /\ calls = 0

\* fml[1].substitute(fml[2], fml[3])
Substitute ==
    /\ fop = ""
    /\ fop' = "substitute"
    /\ fout' = Some(substitute(fml[1], fml[2], fml[3]))
    /\ UNCHANGED fml
    /\ UNCHANGED search

\* fml[1].free_vars()
FreeVars ==
    /\ fop = ""
    /\ fop' = "free_vars"
    /\ fout' = Some(free_vars(fml[1]))
    /\ UNCHANGED fml
    /\ UNCHANGED search

NextTerm == Substitute \/ FreeVars

SpecTerm == InitTerm /\ [][NextTerm]_vars

\* The formula algebra: one operation applied to one receiver, a formula or
\* a two-sided sequent.
InitAlgebra ==
    /\ fml \in Formulas2 \cup Formulas3 \cup {Receiver(ts) : ts \in TwoSidedInputs}
    /\ fop = ""
    /\ fout = None
    /\ prover = Prover_new(MaxDepth)
    /\ goal = None
    /\ result = None
    /\ calls = 0

\* fml.negate()
Negate ==
    /\ fop = ""
    /\ IsFormula(fml)
    /\ fop' = "negate"
    /\ fout' = Some(negate(fml))
    /\ UNCHANGED fml
    /\ UNCHANGED search

\* fml.desugar()
Desugar ==
    /\ fop = ""
    /\ IsFormula(fml)
    /\ fop' = "desugar"
    /\ fout' = Some(desugar(fml))
    /\ UNCHANGED fml
    /\ UNCHANGED search

\* fml.is_positive() and fml.is_negative()
Polarity ==
    /\ fop = ""
    /\ IsFormula(fml)
    /\ fop' = "polarity"
    /\ fout' = Some(<<is_positive(fml), is_negative(fml)>>)
    /\ UNCHANGED fml
    /\ UNCHANGED search

\* ts.to_one_sided()
ToOneSided ==
    /\ fop = ""
    /\ ~IsFormula(fml)
    /\ fop' = "to_one_sided"
    /\ fout' = Some(to_one_sided(fml[2]))
    /\ UNCHANGED fml
    /\ UNCHANGED search

NextAlgebra ==
    \/ Negate
    \/ Desugar
    \/ Polarity
    \/ ToOneSided

SpecAlgebra == InitAlgebra /\ [][NextAlgebra]_vars

\* ------------------------------------------------------------------------
\* Properties of the search
\* ------------------------------------------------------------------------

\* A prover as Prover::new makes it, with this prover's budget and use_cache.
Fresh == [Prover_new(prover.max_depth) EXCEPT !.use_cache = prover.use_cache]

\* The nodes of a proof tree.
RECURSIVE Nodes(_)
Nodes(p) == {p} \cup UNION {Nodes(p.premises[k]) : k \in DOMAIN p.premises}

RuleNames(p) == {n.rule[1] : n \in Nodes(p)}

\* C1: a returned proof concludes the sequent prove was called on: the same
\* linear list, the same unrestricted list, the same focus.
C1_ConclusionIsGoal == result # None => result[1].conclusion = goal[1]

\* A zone read with A -o B as A^ par B, and two zones equal as multisets.
Desugared(zone) == [i \in DOMAIN zone |-> desugar(zone[i])]

SameZone(s, t) == sort(s) = sort(t)

\* Whether a node is an inference of its rule: its premises are the sequents
\* the rule asks for from its conclusion, and as many as the rule has.
ValidNode(p) ==
    LET L == Desugared(p.conclusion.linear)
        U == Desugared(p.conclusion.unrestricted)
        n == Len(p.premises)
        PL(k) == Desugared(p.premises[k].conclusion.linear)
        PU(k) == Desugared(p.premises[k].conclusion.unrestricted)
        r == p.rule[1]
    IN CASE r = "Axiom" ->
              /\ n = 0
              /\ Len(L) = 2
              /\ \E i, j \in 1..2 : i # j /\ Tag(L[i]) = "Atom" /\ L[j] = NegAtom(L[i][2])
         [] r = "OneIntro" -> n = 0 /\ L = <<One>>
         [] r = "TopIntro" -> n = 0 /\ \E i \in DOMAIN L : L[i] = Top
         [] r = "BottomIntro" ->
              /\ n = 1
              /\ SameZone(PL(1) \o <<Bottom>>, L)
              /\ SameZone(PU(1), U)
         [] r = "ParIntro" ->
              /\ n = 1
              /\ \E i \in DOMAIN L :
                    /\ Tag(L[i]) = "Par"
                    /\ SameZone(PL(1) \o <<L[i]>>, L \o <<L[i][2], L[i][3]>>)
              /\ SameZone(PU(1), U)
         [] r = "WithIntro" ->
              /\ n = 2
              /\ \E i \in DOMAIN L :
                    /\ Tag(L[i]) = "With"
                    /\ SameZone(PL(1) \o <<L[i]>>, L \o <<L[i][2]>>)
                    /\ SameZone(PL(2) \o <<L[i]>>, L \o <<L[i][3]>>)
              /\ SameZone(PU(1), U)
              /\ SameZone(PU(2), U)
         [] r = "TensorIntro" ->
              /\ n = 2
              /\ \E i \in DOMAIN L :
                    /\ Tag(L[i]) = "Tensor"
                    /\ L[i][2] \in Range(PL(1))
                    /\ L[i][3] \in Range(PL(2))
                    /\ SameZone(PL(1) \o PL(2) \o <<L[i]>>, L \o <<L[i][2], L[i][3]>>)
              /\ SameZone(PU(1), U)
              /\ SameZone(PU(2), U)
         [] r = "PlusIntroLeft" ->
              /\ n = 1
              /\ \E i \in DOMAIN L :
                    /\ Tag(L[i]) = "Plus"
                    /\ SameZone(PL(1) \o <<L[i]>>, L \o <<L[i][2]>>)
              /\ SameZone(PU(1), U)
         [] r = "PlusIntroRight" ->
              /\ n = 1
              /\ \E i \in DOMAIN L :
                    /\ Tag(L[i]) = "Plus"
                    /\ SameZone(PL(1) \o <<L[i]>>, L \o <<L[i][3]>>)
              /\ SameZone(PU(1), U)
         [] r = "WhyNotIntro" ->
              /\ n = 1
              /\ \E i \in DOMAIN L :
                    /\ Tag(L[i]) = "WhyNot"
                    /\ SameZone(PL(1) \o <<L[i]>>, L)
                    /\ SameZone(PU(1), U \o <<L[i][2]>>)
         [] r = "OfCourseIntro" ->
              /\ n = 1
              /\ Len(L) = 1
              /\ Tag(L[1]) = "OfCourse"
              /\ PL(1) = <<L[1][2]>>
              /\ SameZone(PU(1), U)
         [] r = "Dereliction" ->
              /\ n = 1
              /\ \E i \in DOMAIN U :
                    /\ SameZone(PL(1), L \o <<U[i]>>)
                    /\ SameZone(PU(1) \o <<U[i]>>, U)
         [] r = "Contraction" ->
              /\ n = 1
              /\ \E i \in DOMAIN U :
                    /\ SameZone(PL(1), L \o <<U[i], U[i]>>)
                    /\ SameZone(PU(1) \o <<U[i]>>, U)
         [] r = "Weakening" ->
              /\ n = 1
              /\ \E i \in DOMAIN U :
                    /\ SameZone(PL(1), L)
                    /\ SameZone(PU(1) \o <<U[i]>>, U)
         [] OTHER -> FALSE

LolliCount(linear) == Cardinality({i \in DOMAIN linear : Tag(linear[i]) = "Lolli"})

\* A call of prove_with_depth and its caller: one level deeper, or at the
\* same depth with fewer Lolli formulas in the linear zone.
Descends(e) ==
    IF e.caller = None THEN e.depth = 0
    ELSE \/ e.depth = e.caller[1].depth + 1
         \/ /\ e.depth = e.caller[1].depth
            /\ LolliCount(e.seq.linear) < LolliCount(e.caller[1].seq.linear)

\* C4: a prove call returns, and every call of prove_with_depth it made is at
\* a depth of at most max_depth + 1 and descends from its caller.
C4_Terminates ==
    goal # None =>
        /\ prover.trace # <<>>
        /\ prover.trace[Len(prover.trace)].seq = goal[1]
        /\ prover.trace[Len(prover.trace)].caller = None
        /\ prover.cur = None
        /\ \A k \in DOMAIN prover.trace :
              /\ prover.trace[k].depth <= prover.max_depth + 1
              /\ Descends(prover.trace[k])

\* C4 witness: a search, without the cache, that rewrote a Lolli at the depth
\* of its caller and was cut off by the budget elsewhere.
C4_Witness ==
    /\ goal # None
    /\ ~prover.use_cache
    /\ \E k \in DOMAIN prover.trace :
          /\ prover.trace[k].caller # None
          /\ prover.trace[k].depth = prover.trace[k].caller[1].depth
    /\ \E k \in DOMAIN prover.trace : prover.trace[k].outcome = "over_depth"

\* The elements of a sequence at the indices in S, in order.
RECURSIVE Pick(_, _, _)
Pick(s, S, i) ==
    IF i > Len(s) THEN <<>>
    ELSE (IF i \in S THEN <<s[i]>> ELSE <<>>) \o Pick(s, S, i + 1)

\* The reference: whether the one-sided sequent G (a list of Lolli-free
\* formulas, ?-formulas among them) has a cut-free derivation of height at
\* most n in linear logic.
RECURSIVE Derivable(_, _)
Derivable(G, n) ==
    /\ n > 0
    /\ \/ /\ Len(G) = 2
          /\ \E i, j \in 1..2 : i # j /\ Tag(G[i]) = "Atom" /\ G[j] = NegAtom(G[i][2])
       \/ G = <<One>>
       \/ \E i \in DOMAIN G : G[i] = Top
       \/ \E i \in DOMAIN G :
             LET f == G[i]
                 R == remove(G, i)
             IN CASE Tag(f) = "Bottom" -> Derivable(R, n - 1)
                  [] Tag(f) = "Par" -> Derivable(R \o <<f[2], f[3]>>, n - 1)
                  [] Tag(f) = "With" ->
                       /\ Derivable(Append(R, f[2]), n - 1)
                       /\ Derivable(Append(R, f[3]), n - 1)
                  [] Tag(f) = "Plus" ->
                       \/ Derivable(Append(R, f[2]), n - 1)
                       \/ Derivable(Append(R, f[3]), n - 1)
                  [] Tag(f) = "Tensor" ->
                       \E S \in SUBSET DOMAIN R :
                          /\ Derivable(Append(Pick(R, S, 1), f[2]), n - 1)
                          /\ Derivable(Append(Pick(R, DOMAIN R \ S, 1), f[3]), n - 1)
                  [] Tag(f) = "WhyNot" ->
                       \/ Derivable(Append(R, f[2]), n - 1)
                       \/ Derivable(R, n - 1)
                       \/ Derivable(Append(G, f), n - 1)
                  [] Tag(f) = "OfCourse" ->
                       /\ \A j \in DOMAIN R : Tag(R[j]) = "WhyNot"
                       /\ Derivable(Append(R, f[2]), n - 1)
                  [] OTHER -> FALSE

\* The height of the derivations the reference looks for.
RefHeight == 2

\* A sequent of the prover as a one-sided list: the linear zone, then the
\* unrestricted zone under ?.
AsList(seq) ==
    Desugared(seq.linear)
    \o [i \in DOMAIN seq.unrestricted |-> WhyNot(desugar(seq.unrestricted[i]))]

\* C5: with the largest budget, a new prover proves every sequent (built by
\* Sequent::new) that has a cut-free derivation.
C5_Complete ==
    (/\ goal # None
     /\ calls = 1
     /\ prover.max_depth = MaxDepth
     /\ goal[1].unrestricted = <<>>
     /\ Derivable(AsList(goal[1]), RefHeight))
    => result # None

\* C6: a sequent whose key a search put in the failure cache is one that a
\* new prover with the same budget does not prove from depth 0.
C6_NoPoison ==
    \A k \in DOMAIN prover.trace :
       (prover.trace[k].outcome = "failed" /\ prover.trace[k].key_at_exit)
       => prove(Fresh, prover.trace[k].seq).result = None

\* C7: every prove call returns what a newly constructed prover with the same
\* max_depth and use_cache returns for the same sequent, whatever the prover
\* did before.
C7_FreshEachProve ==
    [][calls' = calls + 1 => result' = prove(Fresh', goal'[1]).result]_vars

\* C8: with the cache in use, a goal whose key is cached fails at once with
\* no sub-goal explored, a goal whose search fails has its key cached when
\* the call returns, and a call that returns a proof inserts nothing.
C8_Memoization ==
    prover.use_cache =>
        \A k \in DOMAIN prover.trace :
           LET e == prover.trace[k]
           IN /\ e.key_at_entry
                 => /\ e.outcome = (IF e.depth > prover.max_depth
                                     THEN "over_depth" ELSE "cache_hit")
                    /\ e.explored_at_exit = e.explored_at_entry + 1
              /\ e.outcome = "cache_hit" => e.key_at_entry
              /\ e.outcome = "failed" => e.key_at_exit
              /\ e.outcome = "proved" => (e.key_at_exit = e.key_after_search)
              /\ e.outcome = "proved" => ~e.key_at_exit

\* C8 witness: a search that proved its goal after a cache hit, a failure and
\* a success below it.
C8_Witness ==
    /\ prover.use_cache
    /\ result # None
    /\ \E k \in DOMAIN prover.trace : prover.trace[k].outcome = "cache_hit"
    /\ \E k \in DOMAIN prover.trace : prover.trace[k].outcome = "failed"

\* The rules the search records.
SearchRules ==
    {"Axiom", "OneIntro", "BottomIntro", "TensorIntro", "ParIntro", "TopIntro",
     "WithIntro", "PlusIntroLeft", "PlusIntroRight", "OfCourseIntro", "WhyNotIntro",
     "Weakening", "Contraction", "Dereliction"}

\* C9: a returned proof has no Cut, and no rule but the search's fourteen.
C9_CutFree ==
    result # None =>
        /\ cut_count(result[1]) = 0
        /\ is_cut_free(result[1])
        /\ RuleNames(result[1]) \subseteq SearchRules

\* C9 witness: a proof of three levels or more closed by OneIntro.
C9_Witness ==
    /\ result # None
    /\ Proof_depth(result[1]) >= 3
    /\ "OneIntro" \in RuleNames(result[1])

\* C10: negating a formula twice gives the formula back.
C10_NegateInvolutive == fop = "negate" => negate(fout[1]) = fml

\* Whether a formula has a Lolli at any depth.
RECURSIVE HasLolli(_)
HasLolli(f) ==
    \/ Tag(f) = "Lolli"
    \/ Tag(f) \in {"Tensor", "Par", "With", "Plus", "Lolli"} /\ (HasLolli(f[2]) \/ HasLolli(f[3]))
    \/ Tag(f) \in {"OfCourse", "WhyNot"} /\ HasLolli(f[2])

\* C11: negate(Lolli(A, B)) is Tensor(A, negate(B)) and is
\* negate(desugar(Lolli(A, B))), also when A or B contain Lolli.
C11_NegateLolli ==
    (fop = "negate" /\ Tag(fml) = "Lolli") =>
        /\ fout[1] = Tensor(fml[2], negate(fml[3]))
        /\ fout[1] = negate(desugar(fml))

\* C12: desugar(F) has no Lolli at any depth, and desugar(F) = F when F has
\* no Lolli.
C12_DesugarNoLolli ==
    fop = "desugar" =>
        /\ ~HasLolli(fout[1])
        /\ ~HasLolli(fml) => fout[1] = fml

\* C12 witness: desugar applied to a Lolli whose negated antecedent still
\* has a Lolli, and whose result differs from it.
C12_Witness ==
    /\ fop = "desugar"
    /\ Tag(fml) = "Lolli"
    /\ HasLolli(negate(fml[2]))
    /\ fout[1] # fml

\* C18: is_positive holds exactly for Atom, Tensor, One, Plus, Zero and
\* OfCourse, is_negative exactly for the seven other constructors, and
\* exactly one of the two holds.
C18_Polarity ==
    fop = "polarity" =>
        /\ fout[1][1] = (Tag(fml) \in {"Atom", "Tensor", "One", "Plus", "Zero", "OfCourse"})
        /\ fout[1][2] = (Tag(fml) \in {"Lolli", "NegAtom", "Par", "Bottom", "With", "Top", "WhyNot"})
        /\ fout[1][1] # fout[1][2]

\* C18 witness: the polarity of a Lolli, which is negative.
C18_Witness ==
    /\ fop = "polarity"
    /\ Tag(fml) = "Lolli"
    /\ fout[1] = <<FALSE, TRUE>>

\* Whether a formula is built from atoms, negated atoms, tensor, par, lolli,
\* 1 and bottom only.
RECURSIVE IsMultiplicative(_)
IsMultiplicative(f) ==
    \/ Tag(f) \in {"Atom", "NegAtom", "One", "Bottom"}
    \/ Tag(f) \in {"Tensor", "Par", "Lolli"} /\ IsMultiplicative(f[2]) /\ IsMultiplicative(f[3])

\* The number of leaves leaf (an Atom or a NegAtom) of a formula.
RECURSIVE Occurrences(_, _)
Occurrences(f, leaf) ==
    IF f = leaf THEN 1
    ELSE IF Tag(f) \in {"Tensor", "Par", "With", "Plus", "Lolli"}
         THEN Occurrences(f[2], leaf) + Occurrences(f[3], leaf)
    ELSE IF Tag(f) \in {"OfCourse", "WhyNot"} THEN Occurrences(f[2], leaf)
    ELSE 0

\* The occurrences of a leaf in a zone.
ZoneOccurrences(zone, leaf) ==
    SumSeq([i \in DOMAIN zone |-> Occurrences(zone[i], leaf)])

\* Every atom name occurs as often positively as negatively in the desugared
\* linear zone.
Balanced(seq) ==
    \A n \in AtomNames :
       ZoneOccurrences(Desugared(seq.linear), Atom(n))
       = ZoneOccurrences(Desugared(seq.linear), NegAtom(n))

\* C13: a proved sequent of multiplicative formulas with an empty
\* unrestricted zone is balanced in every atom; A |- A (x) A and A, B |- A are
\* not proved.
C13_ResourceDiscipline ==
    goal # None =>
        /\ (/\ result # None
            /\ goal[1].unrestricted = <<>>
            /\ \A i \in DOMAIN goal[1].linear : IsMultiplicative(goal[1].linear[i]))
           => Balanced(goal[1])
        /\ goal[1] = to_one_sided(TwoSidedSequent(<<A>>, <<Tensor(A, A)>>)) => result = None
        /\ goal[1] = to_one_sided(TwoSidedSequent(<<A, B>>, <<A>>)) => result = None

\* C13 witness: a proved multiplicative sequent with both atoms under a tensor.
C13_Witness ==
    /\ goal # None
    /\ result # None
    /\ goal[1].unrestricted = <<>>
    /\ \A i \in DOMAIN goal[1].linear : IsMultiplicative(goal[1].linear[i])
    /\ \E i \in DOMAIN goal[1].linear : Tag(goal[1].linear[i]) = "Tensor"
    /\ ZoneOccurrences(goal[1].linear, A) > 0
    /\ ZoneOccurrences(goal[1].linear, B) > 0

\* The nodes with rule name in a proof, counted with repetition.
RECURSIVE CountRule(_, _)
CountRule(p, name) ==
    (IF p.rule[1] = name THEN 1 ELSE 0)
    + SumSeq([i \in DOMAIN p.premises |-> CountRule(p.premises[i], name)])

\* A Contraction node with two Dereliction nodes above it.
RECURSIVE ContractionThenDerelictions(_)
ContractionThenDerelictions(p) ==
    \/ /\ p.rule[1] = "Contraction"
       /\ SumSeq([i \in DOMAIN p.premises |-> CountRule(p.premises[i], "Dereliction")]) >= 2
    \/ \E i \in DOMAIN p.premises : ContractionThenDerelictions(p.premises[i])

\* C14: !A |- A (x) A is proved, by a proof with a Contraction node and two
\* Dereliction nodes above it.
C14_ContractionProof ==
    (/\ goal = Some(to_one_sided(TwoSidedSequent(<<OfCourse(A)>>, <<Tensor(A, A)>>)))
     /\ prover.max_depth = MaxDepth)
    => /\ result # None
       /\ ContractionThenDerelictions(result[1])

\* C15: a sequent with Top in its linear zone is proved by a new prover whose
\* budget is at least the length of the linear zone; a TopIntro node has no
\* premises and Top in the linear zone of its conclusion.
C15_TopProvable ==
    /\ (/\ goal # None
        /\ calls = 1
        /\ \E i \in DOMAIN goal[1].linear : goal[1].linear[i] = Top
        /\ prover.max_depth >= Len(goal[1].linear))
       => result # None
    /\ result # None =>
          \A p \in Nodes(result[1]) :
             p.rule = Rule("TopIntro") =>
                /\ p.premises = <<>>
                /\ \E i \in DOMAIN p.conclusion.linear : p.conclusion.linear[i] = Top

\* C15 witness: Top behind two formulas that each cost a level, proved with a
\* budget equal to the length of the linear zone.
C15_Witness ==
    /\ goal # None
    /\ result # None
    /\ Len(goal[1].linear) = 3
    /\ goal[1].linear[3] = Top
    /\ is_async(goal[1].linear[1])
    /\ is_async(goal[1].linear[2])
    /\ prover.max_depth = 3
    /\ \E p \in Nodes(result[1]) : p.rule = Rule("TopIntro") /\ p.conclusion # goal[1]

C17_ToOneSided ==
    fop = "to_one_sided" =>
        LET ts == fml[2]
            n == Len(ts.antecedent)
            m == Len(ts.succedent)
            s == fout[1]
        IN /\ Len(s.linear) = n + m
           /\ \A i \in 1..n : s.linear[i] = negate(ts.antecedent[i])
           /\ \A j \in 1..m : s.linear[n + j] = ts.succedent[j]
           /\ s.unrestricted = <<>>
           /\ s.focus = None

\* C17 witness: two different formulas on each side.
C17_Witness ==
    /\ fop = "to_one_sided"
    /\ Len(fml[2].antecedent) = 2
    /\ Len(fml[2].succedent) = 2
    /\ fml[2].antecedent[1] # fml[2].antecedent[2]
    /\ fml[2].succedent[1] # fml[2].succedent[2]
    /\ fout[1].linear[1] # fml[2].antecedent[1]

\* C19: the free variables of t.substitute(v, r) are those of t without v,
\* with those of r when v is free in t; and t.substitute(v, r) = t when v is
\* not free in t.
C19_SubstituteCaptureAvoiding ==
    fop = "substitute" =>
        LET t == fml[1]
            v == fml[2]
            r == fml[3]
        IN /\ free_vars(fout[1])
              = (free_vars(t) \ {v}) \cup (IF v \in free_vars(t) THEN free_vars(r) ELSE {})
           /\ v \notin free_vars(t) => fout[1] = t

\* The free occurrences of the variable v in a term.
RECURSIVE FreeOccurrences(_, _)
FreeOccurrences(t, v) ==
    CASE Tag(t) = "Var" -> IF t[2] = v THEN 1 ELSE 0
      [] Tag(t) \in {"Unit", "Trivial"} -> 0
      [] Tag(t) \in {"Pair", "App", "Discard"} -> FreeOccurrences(t[2], v) + FreeOccurrences(t[3], v)
      [] Tag(t) = "LetPair" ->
           FreeOccurrences(t[4], v) + (IF v \in {t[2], t[3]} THEN 0 ELSE FreeOccurrences(t[5], v))
      [] Tag(t) = "Abs" -> IF v = t[2] THEN 0 ELSE FreeOccurrences(t[3], v)
      [] Tag(t) = "Case" ->
           FreeOccurrences(t[2], v)
           + (IF v = t[3] THEN 0 ELSE FreeOccurrences(t[4], v))
           + (IF v = t[5] THEN 0 ELSE FreeOccurrences(t[6], v))
      [] Tag(t) = "Copy" ->
           FreeOccurrences(t[2], v) + (IF v \in {t[3], t[4]} THEN 0 ELSE FreeOccurrences(t[5], v))
      [] OTHER -> FreeOccurrences(t[2], v)

\* The variable of the i-th antecedent (counted from 1): arg0, arg1, ...
Arg(i) == <<"arg0", "arg1">>[i]

\* C20: the term extracted from the proof of A1, ..., An |- B has each
\* arg_i exactly once free; A |- A extracts to Var(arg0) and A, B |- A (x) B
\* to Pair(arg0, arg1).
C20_ExtractLinear ==
    (fop = "extract" /\ result # None) =>
        /\ \A i \in DOMAIN fml[2].antecedent : FreeOccurrences(fout[1], Arg(i)) = 1
        /\ fml[2] = TwoSidedSequent(<<A>>, <<A>>) => fout[1] = Var(Arg(1))
        /\ fml[2] = TwoSidedSequent(<<A, B>>, <<Tensor(A, B)>>)
              => fout[1] = Pair(Var(Arg(1)), Var(Arg(2)))

\* C21: generate_function emits the parameters arg0..arg(n-1), one per
\* antecedent in order, each with the type of its formula, and as return
\* type the succedent's type, a tuple of the types when there are several
\* and () when there is none; the indent level is left as it was.
C21_FunctionSignature ==
    fop = "generate_function" =>
        LET ts == fml[3]
            n == Len(ts.antecedent)
            m == Len(ts.succedent)
            param(k) == <<"arg", k - 1, ": ">> \o generate(ts.antecedent[k])
            RECURSIVE params(_)
            params(k) == IF k > n THEN <<>>
                         ELSE param(k) \o (IF k < n THEN <<", ">> ELSE <<>>) \o params(k + 1)
            RECURSIVE tuple(_)
            tuple(k) == IF k > m THEN <<>>
                        ELSE generate(ts.succedent[k])
                             \o (IF k < m THEN <<", ">> ELSE <<>>) \o tuple(k + 1)
            ret == IF m = 0 THEN <<"()">>
                   ELSE IF m = 1 THEN generate(ts.succedent[1])
                   ELSE <<"(">> \o tuple(1) \o <<")">>
            head == <<"fn ", fml[2], "(">> \o params(1) \o <<") -> ">> \o ret \o <<" {", "\n">>
            code == fout[1].result
        IN /\ Len(code) >= Len(head)
           /\ SubSeq(code, 1, Len(head)) = head
           /\ fout[1].self.indent = fml[1].indent

\* C21 witness: a function of two parameters of different types that
\* returns a tuple.
C21_Witness ==
    /\ fop = "generate_function"
    /\ Len(fml[3].antecedent) = 2
    /\ fml[3].antecedent[1] # fml[3].antecedent[2]
    /\ Len(fml[3].succedent) = 2
    /\ fml[4] = Pair(Var("arg0"), Var("arg1"))

\* The least index of a Par, Bottom, Top, With, WhyNot or Lolli formula in a
\* linear zone (0: none).
FirstNegative(linear) ==
    LET I == {i \in DOMAIN linear :
                 Tag(linear[i]) \in {"Par", "Bottom", "Top", "With", "WhyNot", "Lolli"}}
    IN IF I = {} THEN 0 ELSE CHOOSE i \in I : \A j \in I : i <= j

\* The premises, with the depth they cost, of decomposing the formula at
\* index i of the linear zone of seq in the asynchronous phase.
AsyncPremises(seq, i) ==
    CASE Tag(seq.linear[i]) = "Par" -> {<<par_premise(seq, i), 1>>}
      [] Tag(seq.linear[i]) = "Bottom" -> {<<bottom_premise(seq, i), 1>>}
      [] Tag(seq.linear[i]) = "Top" -> {}
      [] Tag(seq.linear[i]) = "With" -> {<<with_left(seq, i), 1>>, <<with_right(seq, i), 1>>}
      [] Tag(seq.linear[i]) = "WhyNot" -> {<<whynot_premise(seq, i), 1>>}
      [] Tag(seq.linear[i]) = "Lolli" -> {<<lolli_rewrite(seq, i), 0>>}

\* The rule the asynchronous phase records for a formula.
AsyncRule(f) ==
    CASE Tag(f) = "Par" -> "ParIntro"
      [] Tag(f) = "Bottom" -> "BottomIntro"
      [] Tag(f) = "Top" -> "TopIntro"
      [] Tag(f) = "With" -> "WithIntro"
      [] Tag(f) = "WhyNot" -> "WhyNotIntro"
      [] OTHER -> "none"

\* C22: a goal with a Par, Bottom, Top, With, WhyNot or Lolli formula in its
\* linear zone calls prove_with_depth only on the premises of the first such
\* formula; it fails only with a premise that was not proved (never on Top);
\* and the node returned for it has the rule of that formula.
C22_AsyncEager ==
    /\ \A k \in DOMAIN prover.trace :
          LET c == prover.trace[k]
          IN c.caller # None =>
                LET i == FirstNegative(c.caller[1].seq.linear)
                IN i # 0 =>
                      <<c.seq, c.depth - c.caller[1].depth>> \in AsyncPremises(c.caller[1].seq, i)
    /\ \A k \in DOMAIN prover.trace :
          LET e == prover.trace[k]
              i == FirstNegative(e.seq.linear)
          IN (e.outcome = "failed" /\ i # 0) =>
                \E j \in DOMAIN prover.trace :
                   /\ prover.trace[j].caller = Some([seq |-> e.seq, depth |-> e.depth])
                   /\ prover.trace[j].outcome # "proved"
                   /\ <<prover.trace[j].seq, prover.trace[j].depth - e.depth>>
                         \in AsyncPremises(e.seq, i)
    /\ result # None =>
          \A p \in Nodes(result[1]) :
             LET i == FirstNegative(p.conclusion.linear)
             IN i # 0 => p.rule = Rule(AsyncRule(p.conclusion.linear[i]))

\* C22 witness: a goal with Top in its linear zone that fails because the
\* premise of the Bottom in front of it is beyond the budget.
C22_Witness ==
    /\ goal # None
    /\ result = None
    /\ \E i \in DOMAIN goal[1].linear : goal[1].linear[i] = Top
    /\ Tag(goal[1].linear[1]) = "Bottom"
    /\ Len(prover.trace) = 2

\* The items whose bit in mask is b (bit i - 1 for the i-th item), in order.
Part(items, mask, b) ==
    LET I == {i \in DOMAIN items : (mask \div (2 ^ (i - 1))) % 2 = b}
    IN [k \in 1..Cardinality(I) |->
           items[CHOOSE i \in I : Cardinality({j \in I : j <= i}) = k]]

\* The premises of TensorIntro on the formula at idx for one mask.
TensorPair(seq, idx, mask) ==
    LET rest == remove(seq.linear, idx)
    IN <<Sequent(Append(Part(rest, mask, 0), seq.linear[idx][2]), seq.unrestricted, None),
         Sequent(Append(Part(rest, mask, 1), seq.linear[idx][3]), seq.unrestricted, None)>>

\* Every sequent the synchronous phase may pass to prove_with_depth.
SyncPremises(seq) ==
    LET n == Len(seq.linear)
    IN UNION {{TensorPair(seq, idx, m)[1], TensorPair(seq, idx, m)[2]} :
                 idx \in {i \in 1..n : Tag(seq.linear[i]) = "Tensor"},
                 m \in 0..(2 ^ (n - 1) - 1)}
       \cup UNION {{plus_left(seq, i), plus_right(seq, i)} :
                      i \in {i \in 1..n : Tag(seq.linear[i]) = "Plus"}}
       \cup {ofcourse_premise(seq, i) :
                i \in {i \in 1..n : Tag(seq.linear[i]) = "OfCourse" /\ n = 1}}
       \cup UNION {{dereliction_premise(seq, i), contraction_premise(seq, i),
                    weakening_premise(seq, i)} : i \in DOMAIN seq.unrestricted}

\* The calls of prove_with_depth made directly for the goal, in order.
Kids ==
    SelectSeq(prover.trace, LAMBDA e : e.caller = Some([seq |-> goal[1], depth |-> 0]))

\* C23: all_splits lists the 2^n partitions by ascending mask, bit i = 1
\* sending item i right and both sides keeping their order; a goal in the
\* synchronous phase only calls premises of the rules on its formulas, the
\* tensor premises being Gamma + [A] and Delta + [B] of a partition with the
\* unrestricted zone unchanged; and a goal proved by TensorIntro ends with
\* the two proved premises of a mask below which every mask has an unproved
\* premise.
C23_TensorSplit ==
    /\ goal # None =>
          \A items \in {goal[1].linear} \cup {remove(goal[1].linear, i) : i \in DOMAIN goal[1].linear} :
             /\ Len(all_splits(items)) = 2 ^ Len(items)
             /\ \A m \in 0..(2 ^ Len(items) - 1) :
                   all_splits(items)[m + 1] = <<Part(items, m, 0), Part(items, m, 1)>>
    /\ \A k \in DOMAIN prover.trace :
          LET c == prover.trace[k]
          IN (c.caller # None /\ FirstNegative(c.caller[1].seq.linear) = 0) =>
                /\ c.seq \in SyncPremises(c.caller[1].seq)
                /\ c.depth = c.caller[1].depth + 1
    /\ (result # None /\ result[1].rule = Rule("TensorIntro")
          /\ FirstNegative(goal[1].linear) = 0) =>
          \E idx \in {i \in DOMAIN goal[1].linear : Tag(goal[1].linear[i]) = "Tensor"} :
             \E m \in 0..(2 ^ (Len(goal[1].linear) - 1) - 1) :
                /\ Len(Kids) >= 2
                /\ Kids[Len(Kids) - 1].seq = TensorPair(goal[1], idx, m)[1]
                /\ Kids[Len(Kids)].seq = TensorPair(goal[1], idx, m)[2]
                /\ Kids[Len(Kids) - 1].outcome = "proved"
                /\ Kids[Len(Kids)].outcome = "proved"
                /\ \A lower \in 0..(m - 1) :
                      \E j \in DOMAIN Kids :
                         /\ Kids[j].seq \in {TensorPair(goal[1], idx, lower)[1],
                                             TensorPair(goal[1], idx, lower)[2]}
                         /\ Kids[j].outcome # "proved"

\* C23 witness: |- A^, B^, A (x) B proved by TensorIntro with the third
\* partition (A^ left, B^ right) after two partitions failed.
C23_Witness ==
    /\ result # None
    /\ goal[1].linear = <<NegAtom("A"), NegAtom("B"), Tensor(A, B)>>
    /\ result[1].rule = Rule("TensorIntro")
    /\ Len(Kids) = 4
    /\ Kids[3].seq.linear = <<NegAtom("A"), A>>
    /\ Kids[4].seq.linear = <<NegAtom("B"), B>>

\* One step of the synchronous phase: a rule without premise that closes the
\* goal or not ("leaf"), or one call of prove_with_depth on seq: the left
\* premise of a tensor ("left": its right premise, the next step, is called
\* only if it is proved), or a premise whose proof yields the rule.
Slot(kind, seq, closes, rule) == [kind |-> kind, seq |-> seq, closes |-> closes, rule |-> rule]

\* The steps of focusing on the tensor at idx, from mask m on.
RECURSIVE TensorSlots(_, _, _)
TensorSlots(seq, idx, m) ==
    IF m >= 2 ^ (Len(seq.linear) - 1) THEN <<>>
    ELSE <<Slot("left", TensorPair(seq, idx, m)[1], FALSE, "none"),
           Slot("call", TensorPair(seq, idx, m)[2], FALSE, "TensorIntro")>>
         \o TensorSlots(seq, idx, m + 1)

\* The steps of focusing on the formula at index i.
FocusSlots(seq, i) ==
    LET f == seq.linear[i]
    IN CASE Tag(f) = "Atom" -> <<Slot("leaf", seq, focus_atom(seq, i) # None, "Axiom")>>
         [] Tag(f) = "One" -> <<Slot("leaf", seq, focus_one(seq, i) # None, "OneIntro")>>
         [] Tag(f) = "Tensor" -> TensorSlots(seq, i, 0)
         [] Tag(f) = "Plus" -> <<Slot("call", plus_left(seq, i), FALSE, "PlusIntroLeft"),
                                 Slot("call", plus_right(seq, i), FALSE, "PlusIntroRight")>>
         [] Tag(f) = "OfCourse" ->
               IF Len(seq.linear) = 1
               THEN <<Slot("call", ofcourse_premise(seq, i), FALSE, "OfCourseIntro")>>
               ELSE <<>>
         [] OTHER -> <<>>

\* The concatenation of step(i) for i from lo to hi.
RECURSIVE Concat(_, _, _)
Concat(step, lo, hi) == IF lo > hi THEN <<>> ELSE step[lo] \o Concat(step, lo + 1, hi)

\* The steps of the synchronous phase on seq, in the order of the claim.
SyncSlots(seq) ==
    LET n == Len(seq.linear)
        u == Len(seq.unrestricted)
    IN Concat([i \in 1..n |-> FocusSlots(seq, i)], 1, n)
       \o Concat([i \in 1..n |->
                     IF Tag(seq.linear[i]) = "NegAtom"
                     THEN <<Slot("leaf", seq, try_axiom(seq, i) # None, "Axiom")>>
                     ELSE <<>>], 1, n)
       \o Concat([i \in 1..u |->
                     <<Slot("call", dereliction_premise(seq, i), FALSE, "Dereliction")>>], 1, u)
       \o Concat([i \in 1..u |->
                     <<Slot("call", contraction_premise(seq, i), FALSE, "Contraction")>>], 1, u)
       \o Concat([i \in 1..u |->
                     <<Slot("call", weakening_premise(seq, i), FALSE, "Weakening")>>], 1, u)

\* Walks the steps from s on against the calls made for the goal from k on:
\* whether the calls are the steps in order up to the first success, and
\* the rule of that success ("none": every step failed).
RECURSIVE Walk(_, _, _)
Walk(slots, s, k) ==
    IF s > Len(slots) THEN [ok |-> k = Len(Kids) + 1, rule |-> "none"]
    ELSE IF slots[s].kind = "leaf"
    THEN IF slots[s].closes THEN [ok |-> k = Len(Kids) + 1, rule |-> slots[s].rule]
         ELSE Walk(slots, s + 1, k)
    ELSE IF k > Len(Kids) \/ Kids[k].seq # slots[s].seq THEN [ok |-> FALSE, rule |-> "none"]
    ELSE IF slots[s].kind = "left"
    THEN Walk(slots, IF Kids[k].outcome = "proved" THEN s + 1 ELSE s + 2, k + 1)
    ELSE IF Kids[k].outcome = "proved" THEN [ok |-> k = Len(Kids), rule |-> slots[s].rule]
    ELSE Walk(slots, s + 1, k + 1)

\* C24: for a goal that reaches the synchronous phase (a non-empty linear zone
\* without Par, Bottom, Top, With, WhyNot or Lolli), the calls
\* of prove_with_depth are the synchronous steps in order (positive formulas
\* by index, a Plus left then right, the axiom from negated atoms,
\* dereliction, contraction, weakening by index) up to the first success,
\* whose rule is recorded; the goal fails only when every step failed.
C24_SyncOrder ==
    (goal # None /\ goal[1].linear # <<>> /\ FirstNegative(goal[1].linear) = 0) =>
        LET w == Walk(SyncSlots(goal[1]), 1, 1)
        IN /\ w.ok
           /\ (result = None) = (w.rule = "none")
           /\ result # None => result[1].rule = Rule(w.rule)

\* C24 witness: |- 1 (+) 1, both premises provable, proved by PlusIntroLeft
\* after a single call.
C24_Witness ==
    /\ result # None
    /\ goal[1].linear = <<Plus(One, One)>>
    /\ result[1].rule = Rule("PlusIntroLeft")
    /\ Len(Kids) = 1

\* C25: in a returned proof every node without premises has rule Axiom,
\* OneIntro or TopIntro; an Axiom conclusion's linear zone is Atom(a) and
\* NegAtom(a); a OneIntro conclusion's linear zone is [One]; an OfCourseIntro
\* conclusion's linear zone is [!A] and its single premise has linear zone
\* [A] and the same unrestricted zone; no node has a rule on Zero.
C25_LeafConditions ==
    result # None =>
        \A p \in Nodes(result[1]) :
           LET L == p.conclusion.linear
           IN /\ p.premises = <<>> =>
                    p.rule \in {Rule("Axiom"), Rule("OneIntro"), Rule("TopIntro")}
              /\ p.rule = Rule("Axiom") =>
                    /\ Len(L) = 2
                    /\ \E a \in AtomNames :
                          {L[1], L[2]} = {Atom(a), NegAtom(a)}
              /\ p.rule = Rule("OneIntro") => L = <<One>>
              /\ p.rule = Rule("OfCourseIntro") =>
                    /\ Len(L) = 1
                    /\ Tag(L[1]) = "OfCourse"
                    /\ Len(p.premises) = 1
                    /\ p.premises[1].conclusion.linear = <<L[1][2]>>
                    /\ p.premises[1].conclusion.unrestricted = p.conclusion.unrestricted
              /\ p.rule[1] \in SearchRules

\* A zone without its i-th formula, the others in order.
Without(zone, i) == [k \in 1..(Len(zone) - 1) |-> IF k < i THEN zone[k] ELSE zone[k + 1]]

\* The child goal of a structural rule on unrestricted[i], with `copies`
\* copies of the formula appended to the linear zone.
StructuralChild(seq, i, copies) ==
    [linear |-> seq.linear \o [k \in 1..copies |-> seq.unrestricted[i]],
     unrestricted |-> Without(seq.unrestricted, i),
     focus |-> None]

\* The sequents the synchronous phase passes to prove_with_depth when it
\* focuses on a linear formula.
FocusPremises(seq) ==
    LET n == Len(seq.linear)
    IN UNION {{TensorPair(seq, idx, m)[1], TensorPair(seq, idx, m)[2]} :
                 idx \in {i \in 1..n : Tag(seq.linear[i]) = "Tensor"},
                 m \in 0..(2 ^ (n - 1) - 1)}
       \cup UNION {{plus_left(seq, i), plus_right(seq, i)} :
                      i \in {i \in 1..n : Tag(seq.linear[i]) = "Plus"}}
       \cup {ofcourse_premise(seq, i) :
                i \in {i \in 1..n : Tag(seq.linear[i]) = "OfCourse" /\ n = 1}}

Rewritten(seq, i) ==
    [seq EXCEPT !.linear[i] = Par(negate(seq.linear[i][2]), seq.linear[i][3])]

\* C27: a goal whose first Par, Bottom, Top, With, WhyNot or Lolli is a Lolli
\* at index i calls prove_with_depth once, on the sequent with Par(negate(A),
\* B) at index i, at the same depth; what prove returns for it is what it
\* returns for the rewritten sequent (no node for the rewrite); and
\* |- A -o A is proved with max_depth 1.
C27_LolliNoDepth ==
    /\ \A k \in DOMAIN prover.trace :
          LET c == prover.trace[k]
          IN c.caller # None =>
                LET i == FirstNegative(c.caller[1].seq.linear)
                IN (i # 0 /\ Tag(c.caller[1].seq.linear[i]) = "Lolli") =>
                      /\ c.seq = Rewritten(c.caller[1].seq, i)
                      /\ c.depth = c.caller[1].depth
    /\ goal # None =>
          LET i == FirstNegative(goal[1].linear)
          IN (i # 0 /\ Tag(goal[1].linear[i]) = "Lolli") =>
                /\ result = prove(Fresh, Rewritten(goal[1], i)).result
                /\ Len(Kids) = 1
    /\ (goal = Some(Sequent_new(<<Lolli(A, A)>>)) /\ prover.max_depth = 1) =>
          /\ result # None
          /\ result[1].rule = Rule("ParIntro")
          /\ Proof_depth(result[1]) = 2

\* C27 witness: |- A -o A proved with max_depth 1; the rewritten sequent was
\* searched at depth 0.
C27_Witness ==
    /\ goal = Some(Sequent_new(<<Lolli(A, A)>>))
    /\ prover.max_depth = 1
    /\ result # None
    /\ Len(prover.trace) = 3
    /\ prover.trace[2].seq.linear = <<Par(NegAtom("A"), A)>>
    /\ prover.trace[2].depth = 0

\* C28: prove on a new prover returns the same result (the same proof, or
\* None) with use_cache set as with use_cache unset, for every sequent and
\* every max_depth.
C28_CacheTransparent ==
    goal # None =>
        result = prove([Fresh EXCEPT !.use_cache = ~prover.use_cache], goal[1]).result

\* Two zones with the same formulas, each as many times.
SameMultiset(s, t) ==
    \A f \in Range(s) \cup Range(t) :
       Cardinality({i \in DOMAIN s : s[i] = f}) = Cardinality({i \in DOMAIN t : t[i] = f})

\* C29: two sequents have the same key exactly when their linear zones are
\* equal as multisets and their unrestricted zones are equal as multisets;
\* a linear ?A is not confused with an unrestricted A.
C29_KeySeparatesZones ==
    fop = "sequent_key" =>
        ((fout[1] = fout[2]) <=>
            /\ SameMultiset(fml[1].linear, fml[2].linear)
            /\ SameMultiset(fml[1].unrestricted, fml[2].unrestricted))

\* C30: a returned proof has depth() at most max_depth + 1; a goal at a depth
\* above max_depth is cut off and calls nothing; and after a prove call
\* stats.max_depth_reached <= max_depth + 1 (it is the greatest depth
\* called) and stats.cache_hits <= stats.sequents_explored (the cache hits
\* among the calls).
C30_DepthAccounting ==
    goal # None =>
        /\ result # None => Proof_depth(result[1]) <= prover.max_depth + 1
        /\ \A k \in DOMAIN prover.trace :
              LET e == prover.trace[k]
              IN /\ e.depth > prover.max_depth => e.outcome = "over_depth"
                 /\ e.caller # None => e.caller[1].depth <= prover.max_depth
        /\ prover.stats.max_depth_reached <= prover.max_depth + 1
        /\ \A k \in DOMAIN prover.trace : prover.trace[k].depth <= prover.stats.max_depth_reached
        /\ prover.stats.cache_hits <= prover.stats.sequents_explored
        /\ prover.stats.sequents_explored = Len(prover.trace)
        /\ prover.stats.cache_hits =
              Cardinality({k \in DOMAIN prover.trace : prover.trace[k].outcome = "cache_hit"})

\* C30 witness: a proof as deep as the budget allows, from a search that was
\* also cut off one level below.
C30_Witness ==
    /\ result # None
    /\ prover.max_depth >= 1
    /\ Proof_depth(result[1]) = prover.max_depth + 1
    /\ prover.stats.max_depth_reached = prover.max_depth + 1

====
